---- MODULE Spec2Model ----
(***************************************************************************)
(* Model of addressBook.py: the validated field types, Record,             *)
(* AddressBook, pickle persistence, the command handlers and the           *)
(* read-eval loop of main().                                               *)
(*                                                                         *)
(* A Python str is a sequence of one-character strings.  Printed text is   *)
(* a sequence of pieces (a literal is one piece, interpolated data is its  *)
(* characters).  None is the empty sequence and Some(x) is <<x>>.          *)
(***************************************************************************)
EXTENDS Integers, Sequences, FiniteSets

VARIABLES book, file, pc, line, out, raised, today, rec, given, call

vars == <<book, file, pc, line, out, raised, today, rec, given, call>>

loopVars == <<book, file, pc, line, out, today>>

recVars == <<rec, given, call>>

(***************************************************************************)
(* Bounds                                                                  *)
(***************************************************************************)
MaxPhones == 2

(***************************************************************************)
(* Strings                                                                 *)
(***************************************************************************)
None == <<>>

Some(x) == <<x>>

Lit(s) == <<s>>

NL == "\n"

Whitespace == {" ", "\t", NL}

DigitChars == <<"0", "1", "2", "3", "4", "5", "6", "7", "8", "9">>

IsDigit(c) == \E i \in 1..10 : DigitChars[i] = c

DigitVal(c) == (CHOOSE i \in 1..10 : DigitChars[i] = c) - 1

UpperChars == <<"A", "B", "C", "D", "E", "F", "G", "H", "I", "J", "K", "L", "M",
                "N", "O", "P", "Q", "R", "S", "T", "U", "V", "W", "X", "Y", "Z">>

LowerChars == <<"a", "b", "c", "d", "e", "f", "g", "h", "i", "j", "k", "l", "m",
                "n", "o", "p", "q", "r", "s", "t", "u", "v", "w", "x", "y", "z">>

LowerChar(c) ==
    IF \E i \in 1..26 : UpperChars[i] = c
    THEN LowerChars[CHOOSE i \in 1..26 : UpperChars[i] = c]
    ELSE c

\* str.lower()
lower(s) == [i \in 1..Len(s) |-> LowerChar(s[i])]

RECURSIVE lstrip(_)
lstrip(s) ==
    IF s = <<>> THEN <<>>
    ELSE IF Head(s) \in Whitespace THEN lstrip(Tail(s)) ELSE s

RECURSIVE rstrip(_)
rstrip(s) ==
    IF s = <<>> THEN <<>>
    ELSE IF s[Len(s)] \in Whitespace THEN rstrip(SubSeq(s, 1, Len(s) - 1)) ELSE s

\* str.strip()
strip(s) == rstrip(lstrip(s))

RECURSIVE SplitAcc(_, _, _)
SplitAcc(s, cur, acc) ==
    IF s = <<>> THEN (IF cur = <<>> THEN acc ELSE Append(acc, cur))
    ELSE IF Head(s) \in Whitespace
         THEN SplitAcc(Tail(s), <<>>, IF cur = <<>> THEN acc ELSE Append(acc, cur))
         ELSE SplitAcc(Tail(s), Append(cur, Head(s)), acc)

\* str.split() without arguments: the maximal runs of non-whitespace
split(s) == SplitAcc(s, <<>>, <<>>)

RECURSIVE SplitOn(_, _, _, _)
SplitOn(s, sep, cur, acc) ==
    IF s = <<>> THEN Append(acc, cur)
    ELSE IF Head(s) = sep
         THEN SplitOn(Tail(s), sep, <<>>, Append(acc, cur))
         ELSE SplitOn(Tail(s), sep, Append(cur, Head(s)), acc)

RECURSIVE join(_, _)
\* sep.join(items)
join(sep, items) ==
    IF items = <<>> THEN <<>>
    ELSE IF Len(items) = 1 THEN items[1]
    ELSE items[1] \o sep \o join(sep, Tail(items))

\* two decimal digits, zero padded (%d and %m of strftime)
Pad2(n) == <<DigitChars[(n \div 10) + 1], DigitChars[(n % 10) + 1]>>

RECURSIVE DecimalOf(_)
DecimalOf(n) ==
    IF n < 10 THEN <<DigitChars[n + 1]>>
    ELSE Append(DecimalOf(n \div 10), DigitChars[(n % 10) + 1])

RECURSIVE NumberOf(_)
NumberOf(s) ==
    IF s = <<>> THEN 0
    ELSE NumberOf(SubSeq(s, 1, Len(s) - 1)) * 10 + DigitVal(s[Len(s)])

(***************************************************************************)
(* Exceptions.  A call that can raise returns a record whose exc field is  *)
(* the exception class ("" when it returned) and msg is str(e).            *)
(***************************************************************************)
NoExc == ""

ValueError(msg) == [exc |-> "ValueError", msg |-> msg]

IndexError(msg) == [exc |-> "IndexError", msg |-> msg]

(***************************************************************************)
(* Field value types                                                       *)
(***************************************************************************)
\* Name.__init__: raises when value.strip() is empty, stores value as given
NameRaises(value) == strip(value) = <<>>

NameError == ValueError(Lit("Name cannot be empty or just whitespace."))

\* Phone.validate: re.match(r'^\d{10}$', value); $ matches at the end of the
\* string and also just before a newline that ends the string
validate(value) ==
    /\ Len(value) >= 10
    /\ \A i \in 1..10 : IsDigit(value[i])
    /\ \/ Len(value) = 10
       \/ Len(value) = 11 /\ value[11] = NL

PhoneError(value) ==
    ValueError(Lit("Invalid phone number: ") \o value
               \o Lit(". It must contain exactly 10 digits."))

IsLeap(y) == (y % 4 = 0) /\ ((y % 100 # 0) \/ (y % 400 = 0))

DaysInMonth(y, m) ==
    IF m = 2 THEN (IF IsLeap(y) THEN 29 ELSE 28)
    ELSE IF m \in {4, 6, 9, 11} THEN 30 ELSE 31

\* the days before 1 January of year y
DaysBeforeYear(y) ==
    LET p == y - 1 IN p * 365 + (p \div 4) - (p \div 100) + (p \div 400)

RECURSIVE DaysBeforeMonth(_, _)
DaysBeforeMonth(y, m) ==
    IF m = 1 THEN 0 ELSE DaysBeforeMonth(y, m - 1) + DaysInMonth(y, m - 1)

\* date.toordinal(): the order date comparison and timedelta addition use
ToOrdinal(d) == DaysBeforeYear(d.y) + DaysBeforeMonth(d.y, d.m) + d.d

AllDigits(s) == \A i \in 1..Len(s) : IsDigit(s[i])

\* the %d directive: 3[0-1]|[1-2]\d|0[1-9]|[1-9]| [1-9]
MatchesDay(s) ==
    \/ Len(s) = 2 /\ AllDigits(s) /\ NumberOf(s) \in 1..31
    \/ Len(s) = 1 /\ AllDigits(s) /\ NumberOf(s) \in 1..9
    \/ Len(s) = 2 /\ s[1] = " " /\ IsDigit(s[2]) /\ DigitVal(s[2]) \in 1..9

\* the %m directive: 1[0-2]|0[1-9]|[1-9]
MatchesMonth(s) ==
    \/ Len(s) = 2 /\ AllDigits(s) /\ NumberOf(s) \in 1..12
    \/ Len(s) = 1 /\ AllDigits(s) /\ NumberOf(s) \in 1..9

\* the %Y directive: \d\d\d\d
MatchesYear(s) == Len(s) = 4 /\ AllDigits(s)

DayOf(s) == IF s[1] = " " THEN DigitVal(s[2]) ELSE NumberOf(s)

\* datetime.strptime(value, "%d.%m.%Y") succeeds
StrptimeOk(value) ==
    LET f == SplitOn(value, ".", <<>>, <<>>) IN
    /\ Len(f) = 3
    /\ MatchesDay(f[1]) /\ MatchesMonth(f[2]) /\ MatchesYear(f[3])
    /\ NumberOf(f[3]) >= 1
    /\ DayOf(f[1]) <= DaysInMonth(NumberOf(f[3]), NumberOf(f[2]))

strptime(value) ==
    LET f == SplitOn(value, ".", <<>>, <<>>) IN
    [y |-> NumberOf(f[3]), m |-> NumberOf(f[2]), d |-> DayOf(f[1])]

BirthdayError == ValueError(Lit("Invalid date format. Use DD.MM.YYYY"))

\* strftime('%d.%m.%Y')
strftime(d) == Pad2(d.d) \o <<".">> \o Pad2(d.m) \o <<".">> \o DecimalOf(d.y)

\* datetime.replace(year=y) raises for 29 February in a year that has none
ReplaceRaises(d, y) == d.d > DaysInMonth(y, d.m)

ReplaceError == ValueError(Lit("day is out of range for month"))

replace(d, y) == [y |-> y, m |-> d.m, d |-> d.d]

(***************************************************************************)
(* Results of calls that can raise: val is what the call returned, state   *)
(* is the object (record or book) as the call left it, also when it raised *)
(***************************************************************************)
Returned(v, st) == [exc |-> NoExc, msg |-> <<>>, val |-> v, state |-> st]

Raised(e, st) == [exc |-> e.exc, msg |-> e.msg, val |-> <<>>, state |-> st]

(***************************************************************************)
(* Record                                                                  *)
(***************************************************************************)
\* Record.__init__ (after Name(name) succeeded)
Record(name) == [name |-> name, phones |-> <<>>, birthday |-> None]

\* add_phone that skips a number the record already has
add_phone_unique(r, phone) ==
    IF ~validate(phone) THEN Raised(PhoneError(phone), r)
    ELSE IF \E i \in 1..Len(r.phones) : r.phones[i] = phone THEN Returned(None, r)
    ELSE Returned(None, [r EXCEPT !.phones = Append(@, phone)])

add_phone(r, phone) ==
    IF validate(phone)
    THEN Returned(None, [r EXCEPT !.phones = Append(@, phone)])
    ELSE Raised(PhoneError(phone), r)

RECURSIVE Without(_, _)
Without(phones, phone) ==
    IF phones = <<>> THEN <<>>
    ELSE IF Head(phones) = phone THEN Without(Tail(phones), phone)
    ELSE <<Head(phones)>> \o Without(Tail(phones), phone)

remove_phone(r, phone) == Returned(None, [r EXCEPT !.phones = Without(@, phone)])

\* index of the first entry equal to phone, 0 when there is none
FirstIndex(phones, phone) ==
    IF \E i \in 1..Len(phones) : phones[i] = phone
    THEN CHOOSE i \in 1..Len(phones) :
            /\ phones[i] = phone
            /\ \A j \in 1..(i - 1) : phones[j] # phone
    ELSE 0

\* edit_phone that builds Phone(new_phone) before it looks for old_phone
edit_phone_validate_first(r, old_phone, new_phone) ==
    LET i == FirstIndex(r.phones, old_phone) IN
    IF ~validate(new_phone) THEN Raised(PhoneError(new_phone), r)
    ELSE IF i = 0 THEN Returned(None, r)
    ELSE Returned(None, [r EXCEPT !.phones[i] = new_phone])

\* edit_phone that stores new_phone without building a Phone
edit_phone_unvalidated(r, old_phone, new_phone) ==
    LET i == FirstIndex(r.phones, old_phone) IN
    IF i = 0 THEN Returned(None, r)
    ELSE Returned(None, [r EXCEPT !.phones[i] = new_phone])

edit_phone(r, old_phone, new_phone) ==
    LET i == FirstIndex(r.phones, old_phone) IN
    IF i = 0 THEN Returned(None, r)
    ELSE IF validate(new_phone)
         THEN Returned(None, [r EXCEPT !.phones[i] = new_phone])
         ELSE Raised(PhoneError(new_phone), r)

find_phone(r, phone) ==
    IF FirstIndex(r.phones, phone) = 0 THEN None ELSE Some(phone)

record_add_birthday(r, birthday) ==
    IF StrptimeOk(birthday)
    THEN Returned(None, [r EXCEPT !.birthday = Some(strptime(birthday))])
    ELSE Raised(BirthdayError, r)

(***************************************************************************)
(* AddressBook: the dict as the sequence of its entries in insertion order *)
(***************************************************************************)
EmptyBook == <<>>

\* position of the key in the dict, 0 when absent
KeyIndex(b, name) ==
    IF \E i \in 1..Len(b) : b[i].key = name
    THEN CHOOSE i \in 1..Len(b) : b[i].key = name
    ELSE 0

\* the record stored under its display text instead of its name value
add_record_by_text(b, record) ==
    LET k == Lit("Contact name: ") \o record.name
        i == KeyIndex(b, k)
    IN IF i = 0 THEN Append(b, [key |-> k, rec |-> record])
       ELSE [b EXCEPT ![i] = [key |-> k, rec |-> record]]

\* self.data[record.name.value] = record
add_record(b, record) ==
    LET i == KeyIndex(b, record.name) IN
    IF i = 0 THEN Append(b, [key |-> record.name, rec |-> record])
    ELSE [b EXCEPT ![i] = [key |-> record.name, rec |-> record]]

find(b, name) ==
    IF KeyIndex(b, name) = 0 THEN None ELSE Some(b[KeyIndex(b, name)].rec)

delete(b, name) ==
    LET i == KeyIndex(b, name) IN
    IF i = 0 THEN b ELSE SubSeq(b, 1, i - 1) \o SubSeq(b, i + 1, Len(b))

RECURSIVE UpcomingFrom(_, _, _, _)
UpcomingFrom(b, i, t, upcoming) ==
    IF i > Len(b) THEN Returned(upcoming, b)
    ELSE LET r == b[i].rec IN
         IF r.birthday = None THEN UpcomingFrom(b, i + 1, t, upcoming)
         ELSE IF ReplaceRaises(r.birthday[1], t.y) THEN Raised(ReplaceError, b)
         ELSE LET bday_this_year == ToOrdinal(replace(r.birthday[1], t.y))
                  next_week == ToOrdinal(t) + 7
              IN IF ToOrdinal(t) <= bday_this_year /\ bday_this_year <= next_week
                 THEN UpcomingFrom(b, i + 1, t, Append(upcoming, r.name))
                 ELSE UpcomingFrom(b, i + 1, t, upcoming)

\* t is the value datetime.today().date() returns
get_upcoming_birthdays(b, t) == UpcomingFrom(b, 1, t, <<>>)

(***************************************************************************)
(* Persistence: the pickle of a book is the tagged tree of its objects     *)
(***************************************************************************)
PickleRecord(r) == <<"Record", r.name, r.phones, r.birthday>>

pickle_dump(b) ==
    <<"AddressBook", [i \in 1..Len(b) |-> <<b[i].key, PickleRecord(b[i].rec)>>]>>

UnpickleRecord(t) == [name |-> t[2], phones |-> t[3], birthday |-> t[4]]

pickle_load(t) ==
    [i \in 1..Len(t[2]) |-> [key |-> t[2][i][1], rec |-> UnpickleRecord(t[2][i][2])]]

\* the file after save_data(book): open(filename, "wb") replaces the content
save_data(b) == Some(pickle_dump(b))

\* a loader that always answers a new book
load_data_fresh(f) == EmptyBook

\* f is the file: None when it does not exist
load_data(f) == IF f = None THEN EmptyBook ELSE pickle_load(f[1])

(***************************************************************************)
(* Command handlers.  Each returns the text it returns in val and the book *)
(* as it left it in state.                                                 *)
(***************************************************************************)
\* the decorator without IndexError in its except clause
CaughtNoIndex == {"KeyError", "ValueError"}

Caught == {"KeyError", "ValueError", "IndexError"}

\* the decorator: a caught exception becomes the returned text str(e)
input_error(res) ==
    IF res.exc \in Caught THEN Returned(res.msg, res.state) ELSE res

\* "a, b, c = args" with a list of the wrong length
UnpackError(expected, got) ==
    IF got < expected
    THEN ValueError(Lit("not enough values to unpack (expected ") \o DecimalOf(expected)
                    \o Lit(", got ") \o DecimalOf(got) \o Lit(")"))
    ELSE ValueError(Lit("too many values to unpack (expected ") \o DecimalOf(expected)
                    \o Lit(")"))

ListIndexError == IndexError(Lit("list index out of range"))

\* the record object a handler holds: its position in the dict
Holding(b, r) == CHOOSE i \in 1..Len(b) : b[i].rec = r

MutateAt(b, i, r) == [b EXCEPT ![i].rec = r]

add_contact(args, b) ==
    IF Len(args) < 2
    THEN Raised(ValueError(Lit("Please provide both name and phone number.")), b)
    ELSE LET name == args[1]
             phone == args[2]
             found == find(b, name)
         IN IF found = None /\ NameRaises(name) THEN Raised(NameError, b)
            ELSE LET b1 == IF found = None THEN add_record(b, Record(name)) ELSE b
                     message == IF found = None THEN "Contact added."
                                ELSE "Contact updated."
                     i == Holding(b1, IF found = None THEN Record(name) ELSE found[1])
                     r == add_phone(b1[i].rec, phone)
                 IN IF r.exc # NoExc THEN Raised(r, b1)
                    ELSE Returned(Lit(message), MutateAt(b1, i, r.state))

change_contact(args, b) ==
    IF Len(args) # 3 THEN Raised(UnpackError(3, Len(args)), b)
    ELSE LET found == find(b, args[1]) IN
         IF found = None THEN Returned(Lit("Contact not found."), b)
         ELSE LET r == edit_phone(found[1], args[2], args[3]) IN
              IF r.exc # NoExc THEN Raised(r, b)
              ELSE Returned(Lit("Phone updated."),
                            MutateAt(b, Holding(b, found[1]), r.state))

show_phone(args, b) ==
    IF Len(args) = 0 THEN Raised(ListIndexError, b)
    ELSE LET found == find(b, args[1]) IN
         IF found = None THEN Returned(Lit("Contact not found."), b)
         ELSE Returned(join(<<";", " ">>, found[1].phones), b)

show_all(args, b) ==
    Returned(join(<<NL>>, [i \in 1..Len(b) |->
                 Lit("Name: ") \o b[i].rec.name \o Lit(", Phones: ")
                 \o join(<<",", " ">>, b[i].rec.phones)]), b)

add_birthday(args, b) ==
    IF Len(args) # 2 THEN Raised(UnpackError(2, Len(args)), b)
    ELSE LET found == find(b, args[1]) IN
         IF found = None THEN Returned(Lit("Contact not found."), b)
         ELSE LET r == record_add_birthday(found[1], args[2]) IN
              IF r.exc # NoExc THEN Raised(r, b)
              ELSE Returned(Lit("Birthday added."),
                            MutateAt(b, Holding(b, found[1]), r.state))

show_birthday(args, b) ==
    IF Len(args) = 0 THEN Raised(ListIndexError, b)
    ELSE LET found == find(b, args[1]) IN
         IF found # None /\ found[1].birthday # None
         THEN Returned(strftime(found[1].birthday[1]), b)
         ELSE Returned(Lit("Birthday not found."), b)

birthdays(args, b, t) ==
    LET upcoming == get_upcoming_birthdays(b, t) IN
    IF upcoming.exc # NoExc THEN Raised(upcoming, b)
    ELSE IF upcoming.val # <<>>
         THEN Returned(Lit("Upcoming birthdays: ") \o join(<<",", " ">>, upcoming.val), b)
         ELSE Returned(Lit("No upcoming birthdays."), b)

\* cmd, *args = user_input.split() raises when the line has no token
parse_input(user_input) ==
    LET toks == split(user_input) IN
    IF toks = <<>>
    THEN Raised(ValueError(Lit("not enough values to unpack (expected at least 1, got 0)")),
                <<>>)
    ELSE Returned([cmd |-> lower(strip(toks[1])), args |-> Tail(toks)], <<>>)

(***************************************************************************)
(* The command tokens main() compares with                                 *)
(***************************************************************************)
kwHello == <<"h", "e", "l", "l", "o">>

kwAdd == <<"a", "d", "d">>

kwChange == <<"c", "h", "a", "n", "g", "e">>

kwPhone == <<"p", "h", "o", "n", "e">>

kwAll == <<"a", "l", "l">>

kwAddBirthday == <<"a", "d", "d", "-", "b", "i", "r", "t", "h", "d", "a", "y">>

kwShowBirthday == <<"s", "h", "o", "w", "-", "b", "i", "r", "t", "h", "d", "a", "y">>

kwBirthdays == <<"b", "i", "r", "t", "h", "d", "a", "y", "s">>

kwClose == <<"c", "l", "o", "s", "e">>

kwExit == <<"e", "x", "i", "t">>

(***************************************************************************)
(* Inputs: the tokens and lines the operator types, the dates the clock    *)
(* shows                                                                   *)
(***************************************************************************)
Rep(c, n) == [i \in 1..n |-> c]

ann == <<"a", "n", "n">>

bob == <<"b", "o", "b">>

Short == <<"1", "2", "3">>

Extra == <<"e", "x", "t", "r", "a">>

Foo == <<"f", "o", "o">>

B1 == <<"0", "2", ".", "0", "1", ".", "1", "9", "9", "0">>

B2 == <<"2", "9", ".", "0", "2", ".", "2", "0", "0", "0">>

BadDay == <<"3", "1", ".", "0", "4", ".", "2", "0", "0", "0">>

BadFormat == <<"1", "9", "9", "0", "-", "0", "1", "-", "0", "2">>

UpExit == <<"E", "X", "I", "T">>

MixClose == <<"C", "l", "o", "s", "e">>

MixAdd == <<"A", "d", "d">>

P1 == Rep("1", 10)

P2 == Rep("2", 10)

Alpha == Rep("1", 9) \o <<"x">>

Long == Rep("1", 11)

P1NL == P1 \o <<NL>>

\* the line made of the tokens, one space between them
L(toks) == join(<<" ">>, toks)

ExitLines == {L(<<UpExit>>), L(<<kwClose>>), L(<<MixClose, Extra>>)}

AddLines ==
    {L(<<kwAdd>>), L(<<kwAdd, ann>>), L(<<kwAdd, ann, P1>>), L(<<kwAdd, ann, P2>>),
     L(<<kwAdd, bob, P1>>), L(<<kwAdd, ann, Short>>), L(<<kwAdd, bob, Alpha>>),
     L(<<kwAdd, bob, Long>>), <<" ">> \o L(<<MixAdd, ann, P1, Extra>>) \o <<" ">>}

ChangeLines ==
    {L(<<kwChange, ann>>), L(<<kwChange, ann, P1, P2>>), L(<<kwChange, ann, P2, P1>>),
     L(<<kwChange, ann, P1, Short>>), L(<<kwChange, bob, P1, P2>>),
     L(<<kwChange, ann, P1, P2, Extra>>)}

PhoneLines == {L(<<kwPhone>>), L(<<kwPhone, ann>>), L(<<kwPhone, bob>>)}

AddBirthdayLines ==
    {L(<<kwAddBirthday, ann>>), L(<<kwAddBirthday, ann, B1>>), L(<<kwAddBirthday, ann, B2>>),
     L(<<kwAddBirthday, bob, B1>>), L(<<kwAddBirthday, ann, BadDay>>),
     L(<<kwAddBirthday, bob, BadFormat>>), L(<<kwAddBirthday, ann, B1, Extra>>)}

ShowBirthdayLines ==
    {L(<<kwShowBirthday>>), L(<<kwShowBirthday, ann>>), L(<<kwShowBirthday, bob>>)}

Lines ==
    {<<>>, <<" ", "\t">>, L(<<kwHello>>), L(<<Foo, ann>>), L(<<kwAll>>),
     L(<<kwBirthdays>>)}
    \cup ExitLines \cup AddLines \cup ChangeLines \cup PhoneLines
    \cup AddBirthdayLines \cup ShowBirthdayLines

SessionLines ==
    {<<>>, L(<<UpExit>>), L(<<kwClose>>), L(<<kwHello>>), L(<<Foo, ann>>), L(<<kwAll>>),
     L(<<kwBirthdays>>), L(<<kwAdd, ann, P1>>), L(<<kwAdd, bob, Alpha>>),
     L(<<kwChange, ann, P1, P2>>), L(<<kwPhone, ann>>),
     L(<<kwAddBirthday, ann, B1>>), L(<<kwShowBirthday, ann>>)}

Date(y, m, d) == [y |-> y, m |-> m, d |-> d]

Todays == {Date(2025, 1, 1), Date(2024, 2, 22), Date(2024, 2, 21), Date(2025, 12, 28)}

(***************************************************************************)
(* main(): one step of the loop reads a line, parses it, runs the handler  *)
(* and prints what it returned                                             *)
(***************************************************************************)
NoCall == [op |-> "", args |-> <<>>]

Init ==
    /\ book = EmptyBook
    /\ file = None
    /\ pc = "start"
    /\ line = None
    /\ out = <<>>
    /\ raised = None
    /\ today = None
    /\ rec = None
    /\ given = None
    /\ call = NoCall

WithinBounds(b) == \A i \in 1..Len(b) : Len(b[i].rec.phones) <= MaxPhones

\* book = load_data(); print("Welcome to the assistant bot!")
Start ==
    /\ pc = "start"
    /\ book' = load_data(file)
    /\ out' = Lit("Welcome to the assistant bot!")
    /\ pc' = "awaiting"
    /\ line' = None
    /\ raised' = None
    /\ today' = None
    /\ UNCHANGED <<file, recVars>>

\* the process has ended; the program is run again
Restart ==
    /\ pc \in {"done", "crashed"}
    /\ pc' = "start"
    /\ book' = EmptyBook
    /\ out' = <<>>
    /\ line' = None
    /\ raised' = None
    /\ today' = None
    /\ UNCHANGED <<file, recVars>>

\* an exception that leaves main(): the traceback is printed and the process
\* ends with its book; nothing is saved
Propagate(l, e) ==
    /\ pc' = "crashed"
    /\ line' = l
    /\ raised' = Some([exc |-> e.exc, msg |-> e.msg])
    /\ today' = None
    /\ book' = EmptyBook
    /\ out' = Lit("Traceback (most recent call last):")
    /\ UNCHANGED <<file, recVars>>

\* input() at the end of the input stream
Eof ==
    /\ pc = "awaiting"
    /\ Propagate(None, [exc |-> "EOFError", msg |-> Lit("EOF when reading a line")])

\* command, *args = parse_input(user_input), for each line the operator types
Parsed == [l \in Lines \cup SessionLines |-> parse_input(l)]

Command(l) == Parsed[l].val.cmd

Args(l) == Parsed[l].val.args

Reads(l, cmd) ==
    /\ pc = "awaiting"
    /\ Parsed[l].exc = NoExc
    /\ Command(l) = cmd

\* print(handler(args, book)) for a decorated handler; t is the clock read
Emit(l, inner, t) ==
    LET res == input_error(inner) IN
    /\ WithinBounds(res.state)
    /\ line' = Some(l)
    /\ raised' = IF inner.exc = NoExc THEN None
                 ELSE Some([exc |-> inner.exc, msg |-> inner.msg])
    /\ today' = t
    /\ IF res.exc = NoExc
       THEN out' = res.val /\ pc' = "awaiting" /\ book' = res.state
       ELSE /\ out' = Lit("Traceback (most recent call last):")
            /\ pc' = "crashed"
            /\ book' = EmptyBook
    /\ UNCHANGED <<file, recVars>>

ParseFails(l) ==
    /\ pc = "awaiting"
    /\ Parsed[l].exc # NoExc
    /\ Propagate(Some(l), Parsed[l])

Exit(l) ==
    /\ pc = "awaiting"
    /\ Parsed[l].exc = NoExc
    /\ Command(l) \in {kwClose, kwExit}
    /\ file' = save_data(book)
    /\ out' = Lit("Good bye!")
    /\ pc' = "done"
    /\ line' = Some(l)
    /\ raised' = None
    /\ today' = None
    /\ UNCHANGED <<book, recVars>>

Hello(l) ==
    /\ Reads(l, kwHello)
    /\ out' = Lit("How can I help you?")
    /\ line' = Some(l)
    /\ raised' = None
    /\ today' = None
    /\ UNCHANGED <<book, file, pc, recVars>>

Add(l) == Reads(l, kwAdd) /\ Emit(l, add_contact(Args(l), book), None)

Change(l) == Reads(l, kwChange) /\ Emit(l, change_contact(Args(l), book), None)

Phone(l) == Reads(l, kwPhone) /\ Emit(l, show_phone(Args(l), book), None)

All(l) == Reads(l, kwAll) /\ Emit(l, show_all(Args(l), book), None)

AddBirthday(l) == Reads(l, kwAddBirthday) /\ Emit(l, add_birthday(Args(l), book), None)

ShowBirthday(l) == Reads(l, kwShowBirthday) /\ Emit(l, show_birthday(Args(l), book), None)

Birthdays(l) ==
    /\ Reads(l, kwBirthdays)
    /\ \E t \in Todays : Emit(l, birthdays(Args(l), book, t), Some(t))

Known ==
    {kwClose, kwExit, kwHello, kwAdd, kwChange, kwPhone, kwAll, kwAddBirthday,
     kwShowBirthday, kwBirthdays}

Invalid(l) ==
    /\ pc = "awaiting"
    /\ Parsed[l].exc = NoExc
    /\ Command(l) \notin Known
    /\ out' = Lit("Invalid command.")
    /\ line' = Some(l)
    /\ raised' = None
    /\ today' = None
    /\ UNCHANGED <<book, file, pc, recVars>>

Next ==
    \/ Start
    \/ Eof
    \/ \E l \in Lines : ParseFails(l)
    \/ \E l \in Lines : Exit(l)
    \/ \E l \in Lines : Hello(l)
    \/ \E l \in Lines : Add(l)
    \/ \E l \in Lines : Change(l)
    \/ \E l \in Lines : Phone(l)
    \/ \E l \in Lines : All(l)
    \/ \E l \in Lines : AddBirthday(l)
    \/ \E l \in Lines : ShowBirthday(l)
    \/ \E l \in Lines : Birthdays(l)
    \/ \E l \in Lines : Invalid(l)

Spec == Init /\ [][Next]_vars

NextSessions ==
    \/ Start
    \/ Restart
    \/ Eof
    \/ \E l \in SessionLines : ParseFails(l)
    \/ \E l \in SessionLines : Exit(l)
    \/ \E l \in SessionLines : Hello(l)
    \/ \E l \in SessionLines : Add(l)
    \/ \E l \in SessionLines : Change(l)
    \/ \E l \in SessionLines : Phone(l)
    \/ \E l \in SessionLines : All(l)
    \/ \E l \in SessionLines : AddBirthday(l)
    \/ \E l \in SessionLines : ShowBirthday(l)
    \/ \E l \in SessionLines : Birthdays(l)
    \/ \E l \in SessionLines : Invalid(l)

SpecSessions == Init /\ [][NextSessions]_vars

(***************************************************************************)
(* Record used directly: the caller constructs a record and calls its      *)
(* methods; an exception reaches the caller                                *)
(***************************************************************************)
NameInputs == {ann, <<" ", "b", "o", "b">>, <<>>, <<" ", "\t">>}

PhoneInputs == {P1, P2, P1NL, Short, Alpha, Long}

BirthdayInputs == {B1, B2, BadDay, BadFormat}

Called(op, args, res) ==
    /\ call' = [op |-> op, args |-> args]
    /\ raised' = IF res.exc = NoExc THEN None
                 ELSE Some([exc |-> res.exc, msg |-> res.msg])
    /\ UNCHANGED loopVars

NewRecord(name) ==
    /\ rec = None
    /\ IF NameRaises(name)
       THEN Called("Record", <<name>>, Raised(NameError, None)) /\ UNCHANGED <<rec, given>>
       ELSE /\ Called("Record", <<name>>, Returned(None, None))
            /\ rec' = Some(Record(name))
            /\ given' = Some(name)

OnRecord(op, args, res) ==
    /\ rec # None
    /\ Len(res.state.phones) <= MaxPhones
    /\ rec' = Some(res.state)
    /\ Called(op, args, res)
    /\ UNCHANGED given

AddPhone(phone) == OnRecord("add_phone", <<phone>>, add_phone(rec[1], phone))

RemovePhone(phone) == OnRecord("remove_phone", <<phone>>, remove_phone(rec[1], phone))

EditPhone(old_phone, new_phone) ==
    OnRecord("edit_phone", <<old_phone, new_phone>>, edit_phone(rec[1], old_phone, new_phone))

FindPhone(phone) ==
    OnRecord("find_phone", <<phone>>, Returned(find_phone(rec[1], phone), rec[1]))

RecordAddBirthday(birthday) ==
    OnRecord("add_birthday", <<birthday>>, record_add_birthday(rec[1], birthday))

NextRecord ==
    \/ \E name \in NameInputs : NewRecord(name)
    \/ \E phone \in PhoneInputs : AddPhone(phone)
    \/ \E phone \in PhoneInputs : RemovePhone(phone)
    \/ \E old_phone \in PhoneInputs, new_phone \in PhoneInputs : EditPhone(old_phone, new_phone)
    \/ \E phone \in PhoneInputs : FindPhone(phone)
    \/ \E birthday \in BirthdayInputs : RecordAddBirthday(birthday)

SpecRecord == Init /\ [][NextRecord]_vars

(***************************************************************************)
(* Vocabulary of the properties                                            *)
(***************************************************************************)
\* the last step read a line that has a command token
HasCommand == line # None /\ Parsed[line[1]].exc = NoExc

LastCmd == Command(line[1])

LastArgs == Args(line[1])

\* a step of the loop that read a line and went on awaiting
Ran(cmd) == pc = "awaiting" /\ pc' = "awaiting" /\ HasCommand' /\ LastCmd' = cmd

\* exactly 10 decimal digits and nothing else
TenDigits(s) == Len(s) = 10 /\ \A i \in 1..Len(s) : s[i] \in {DigitChars[k] : k \in 1..10}

Named(b, n) == {i \in 1..Len(b) : b[i].rec.name = n}

Has(phones, phone) == \E i \in 1..Len(phones) : phones[i] = phone

HandlerCmds == {kwAdd, kwChange, kwPhone, kwAll, kwAddBirthday, kwShowBirthday, kwBirthdays}

(***************************************************************************)
(* C1                                                                      *)
(***************************************************************************)
\* C1: every entry of the book maps a key to a record whose stored name is
\* that key, and no two entries hold a record for the same name.
C1_KeyIsName ==
    /\ \A i \in 1..Len(book) : book[i].key = book[i].rec.name
    /\ \A i, j \in 1..Len(book) : i # j => book[i].rec.name # book[j].rec.name

C1_Witness ==
    /\ pc = "awaiting"
    /\ Len(book) = 2
    /\ HasCommand /\ LastCmd = kwAdd /\ out = Lit("Contact updated.")

(***************************************************************************)
(* C2                                                                      *)
(***************************************************************************)
\* C2: after any sequence of add_phone, remove_phone, edit_phone and
\* add_birthday calls on a record, every entry of its phone list is a string
\* of exactly 10 decimal digits and its name is the non-blank name given at
\* creation.
C2_PhonesAreTenDigits ==
    rec # None =>
        /\ \A i \in 1..Len(rec[1].phones) : TenDigits(rec[1].phones[i])
        /\ rec[1].name = given[1]
        /\ \E i \in 1..Len(rec[1].name) : rec[1].name[i] \notin {" ", "\t", NL}

(***************************************************************************)
(* C3                                                                      *)
(***************************************************************************)
\* C3: an error raised inside a command handler is printed as its message
\* text and the loop stays in the awaiting-command state.
C3_HandlerErrorsArePrinted ==
    (HasCommand /\ LastCmd \in HandlerCmds /\ raised # None) =>
        /\ pc = "awaiting"
        /\ out = raised[1].msg

\* birthdays with a stored 29 February evaluated in a year without one
C3_Witness ==
    /\ HasCommand /\ LastCmd = kwBirthdays
    /\ raised = Some(ReplaceError)
    /\ pc = "awaiting"
    /\ \E i \in 1..Len(book) : book[i].rec.birthday = Some(Date(2000, 2, 29))

(***************************************************************************)
(* C4                                                                      *)
(***************************************************************************)
\* the line's first whitespace-separated token, lower-cased, is close or exit
IsExitLine(l) ==
    \E i \in 1..Len(l), j \in 1..Len(l) :
        /\ i <= j
        /\ \A k \in 1..(i - 1) : l[k] \in {" ", "\t", NL}
        /\ \A k \in i..j : l[k] \notin {" ", "\t", NL}
        /\ j = Len(l) \/ l[j + 1] \in {" ", "\t", NL}
        /\ lower(SubSeq(l, i, j)) \in {kwClose, kwExit}

\* C4: after every line that is read, the loop has ended if the line's
\* command token is close or exit and is awaiting the next command
\* otherwise, also for an empty or whitespace-only line; a line with an
\* unknown token printed "Invalid command.".
C4_LoopEndsOnlyOnExit ==
    line # None =>
        IF IsExitLine(line[1]) THEN pc = "done"
        ELSE /\ pc = "awaiting"
             /\ (HasCommand /\ LastCmd \notin Known) => out = Lit("Invalid command.")

(***************************************************************************)
(* C5                                                                      *)
(***************************************************************************)
\* C5: when a session ends by close or exit the snapshot written loads back
\* to the whole book of that moment; the next session starts with the book
\* of the snapshot, or with an empty book when there is no file; no other
\* step changes the snapshot.
C5_SnapshotRoundTrip ==
    [][/\ (pc = "awaiting" /\ pc' = "done") =>
            /\ book' = book
            /\ file' # None
            /\ load_data(file') = book
       /\ (pc = "start" /\ pc' = "awaiting") =>
            IF file = None THEN book' = EmptyBook
            ELSE pickle_dump(book') = file[1]
       /\ ~(pc = "awaiting" /\ pc' = "done") => file' = file]_vars

\* a session that has just started from the snapshot of an earlier one,
\* which holds a contact with a phone and a birthday
C5_Witness ==
    /\ pc = "awaiting"
    /\ line = None
    /\ file # None
    /\ pickle_dump(book) = file[1]
    /\ \E i \in 1..Len(book) : book[i].rec.phones # <<>> /\ book[i].rec.birthday # None

(***************************************************************************)
(* C6                                                                      *)
(***************************************************************************)
\* C6: after "add n p" with a valid phone p the book holds exactly one
\* record for n, whose phones are the ones it had (none when n was absent)
\* followed by p, also when p was already there; the text is "Contact
\* added." when n was absent and "Contact updated." otherwise; n's birthday
\* and every other record are unchanged.
C6_AddCreatesOrAppends ==
    [][(Ran(kwAdd) /\ Len(LastArgs') >= 2 /\ TenDigits(LastArgs'[2])) =>
          LET n == LastArgs'[1]
              p == LastArgs'[2]
              absent == Named(book, n) = {}
              before == IF absent THEN Record(n)
                        ELSE book[CHOOSE i \in Named(book, n) : TRUE].rec
          IN /\ Cardinality(Named(book', n)) = 1
             /\ \A i \in Named(book', n) :
                   /\ book'[i].rec.phones = before.phones \o <<p>>
                   /\ book'[i].rec.birthday = before.birthday
             /\ out' = IF absent THEN Lit("Contact added.") ELSE Lit("Contact updated.")
             /\ Len(book') = Len(book) + (IF absent THEN 1 ELSE 0)
             /\ \A j \in 1..Len(book) : book[j].rec.name # n => book'[j] = book[j]]_vars

\* ann's number was added a second time while bob is in the book
C6_Witness ==
    /\ pc = "awaiting"
    /\ HasCommand /\ LastCmd = kwAdd /\ LastArgs = <<ann, P1>>
    /\ out = Lit("Contact updated.")
    /\ \E i \in 1..Len(book) : book[i].key = ann /\ book[i].rec.phones = <<P1, P1>>
    /\ \E i \in 1..Len(book) : book[i].key = bob

(***************************************************************************)
(* C7                                                                      *)
(***************************************************************************)
NextDay(d) ==
    IF d.d < DaysInMonth(d.y, d.m) THEN Date(d.y, d.m, d.d + 1)
    ELSE IF d.m < 12 THEN Date(d.y, d.m + 1, 1)
    ELSE Date(d.y + 1, 1, 1)

RECURSIVE Plus(_, _)
Plus(d, k) == IF k = 0 THEN d ELSE NextDay(Plus(d, k - 1))

\* the month/day pairs of today, today+1, ..., today+7
WindowDays(t) == {<<Plus(t, k).m, Plus(t, k).d>> : k \in 0..7}

RECURSIVE DueNames(_, _)
DueNames(b, t) ==
    IF b = <<>> THEN <<>>
    ELSE LET r == b[1].rec
             due == r.birthday # None
                    /\ <<r.birthday[1].m, r.birthday[1].d>> \in WindowDays(t)
         IN (IF due THEN <<r.name>> ELSE <<>>) \o DueNames(Tail(b), t)

\* C7: birthdays lists exactly the names of the records whose birthday's
\* month/day is one of today..today+7 days, also across 31 December, in the
\* book's order, and prints "No upcoming birthdays." exactly when there is
\* none.
C7_BirthdaysListsTheWindow ==
    (HasCommand /\ LastCmd = kwBirthdays /\ today # None) =>
        out = IF DueNames(book, today[1]) = <<>> THEN Lit("No upcoming birthdays.")
              ELSE Lit("Upcoming birthdays: ")
                   \o join(<<",", " ">>, DueNames(book, today[1]))

(***************************************************************************)
(* C8                                                                      *)
(***************************************************************************)
\* the phone list of the contact named n
PhonesOf(b, n) == b[CHOOSE i \in Named(b, n) : TRUE].rec.phones

\* C8: for an existing contact n, "change n old new" with old not in n's
\* phone list leaves the whole book unchanged and still returns "Phone
\* updated."; with old in the list (and new a valid number) only the first
\* entry equal to old becomes new, every other entry keeps its value and
\* position, and the rest of the book is unchanged.
C8_ChangeReplacesFirstOrNothing ==
    [][(pc = "awaiting" /\ HasCommand' /\ LastCmd' = kwChange /\ Len(LastArgs') = 3
        /\ Named(book, LastArgs'[1]) # {}) =>
          LET n == LastArgs'[1]
              old == LastArgs'[2]
              new == LastArgs'[3]
              phones == PhonesOf(book, n)
          IN /\ ~Has(phones, old) =>
                   /\ pc' = "awaiting"
                   /\ book' = book
                   /\ out' = Lit("Phone updated.")
             /\ (Has(phones, old) /\ TenDigits(new)) =>
                   /\ pc' = "awaiting"
                   /\ out' = Lit("Phone updated.")
                   /\ Len(book') = Len(book)
                   /\ \A j \in 1..Len(book) :
                         IF book[j].rec.name # n THEN book'[j] = book[j]
                         ELSE /\ book'[j].key = book[j].key
                              /\ book'[j].rec.name = n
                              /\ book'[j].rec.birthday = book[j].rec.birthday
                              /\ Len(book'[j].rec.phones) = Len(phones)
                              /\ \E i \in 1..Len(phones) :
                                    /\ phones[i] = old
                                    /\ \A k \in 1..(i - 1) : phones[k] # old
                                    /\ book'[j].rec.phones[i] = new
                                    /\ \A k \in 1..Len(phones) :
                                          k # i => book'[j].rec.phones[k] = phones[k]]_vars

\* ann has no such old number and the new one is not even valid, yet the
\* handler reported success
C8_Witness ==
    /\ pc = "awaiting"
    /\ HasCommand /\ LastCmd = kwChange /\ LastArgs = <<ann, P1, Short>>
    /\ Named(book, ann) # {}
    /\ PhonesOf(book, ann) = <<P2, P2>>
    /\ out = Lit("Phone updated.")

(***************************************************************************)
(* C9                                                                      *)
(***************************************************************************)
\* C9 as stated: "change n old new" for an existing contact n with new not a
\* string of exactly 10 digits fails with the invalid-phone error for every
\* old, and the error message is returned instead of "Phone updated.".
C9_InvalidNewAlwaysFails ==
    (HasCommand /\ LastCmd = kwChange /\ Len(LastArgs) = 3
     /\ Named(book, LastArgs[1]) # {} /\ ~TenDigits(LastArgs[3])) =>
        /\ raised = Some(PhoneError(LastArgs[3]))
        /\ out = PhoneError(LastArgs[3]).msg

\* C9 amended: with new not a string of exactly 10 digits, edit_phone fails
\* with the invalid-phone error when old is in the phone list, the list is
\* unchanged and change returns the error message; when old is not in the
\* list nothing is validated, no error is raised and change returns "Phone
\* updated.".
C9_InvalidNewFailsWhenOldFound ==
    [][(pc = "awaiting" /\ HasCommand' /\ LastCmd' = kwChange /\ Len(LastArgs') = 3
        /\ Named(book, LastArgs'[1]) # {} /\ ~TenDigits(LastArgs'[3])) =>
          LET n == LastArgs'[1]
              old == LastArgs'[2]
              new == LastArgs'[3]
          IN /\ pc' = "awaiting"
             /\ book' = book
             /\ IF Has(PhonesOf(book, n), old)
                THEN /\ raised' = Some(PhoneError(new))
                     /\ out' = PhoneError(new).msg
                ELSE /\ raised' = None
                     /\ out' = Lit("Phone updated.")]_vars

\* the old number was found and the new one was rejected
C9_Witness ==
    /\ pc = "awaiting"
    /\ HasCommand /\ LastCmd = kwChange /\ LastArgs = <<ann, P1, Short>>
    /\ Named(book, ann) # {}
    /\ Has(PhonesOf(book, ann), P1)
    /\ raised = Some(PhoneError(Short))
    /\ out = PhoneError(Short).msg

(***************************************************************************)
(* C10                                                                     *)
(***************************************************************************)
SuccessTexts == {Lit("Contact added."), Lit("Contact updated."), Lit("Phone updated."),
                 Lit("Birthday added.")}

\* C10: a handler that returns an error or not-found text instead of its
\* success text leaves the book as it was; phone, all, show-birthday and
\* birthdays never change it.
C10_BookUnchangedOnError ==
    [][(pc = "awaiting" /\ pc' = "awaiting" /\ HasCommand' /\ LastCmd' \in HandlerCmds
        /\ (LastCmd' \in {kwAdd, kwChange, kwAddBirthday} => out' \notin SuccessTexts)) =>
          book' = book]_vars

====
